---- MODULE Spec2Model ----
(***************************************************************************)
(* Model of the silver price analysis scripts                              *)
(*   analyze_silver_prices.py       (variant "v1", pandas)                 *)
(*   analyze_silver_prices_v2.py    (variant "v2")                         *)
(*   analyze_silver_prices_v3.py    (variant "v3")                         *)
(*   analyze_silver_prices_REAL.py  (variant "REAL", sigma annotation)     *)
(*                                                                         *)
(* One run of main() is a linear pass: fetch, process, statistics, rank,   *)
(* display, save.  pc is the position of main.  Prices are whole numbers;   *)
(* percentages, means and variances are exact rationals [n, d]; a standard *)
(* deviation is kept as the square root of a rational (its radicand), so   *)
(* floating-point rounding is abstracted away.  A rational with            *)
(* denominator 0 is one of the float values inf (n = 1), -inf (n = -1) or  *)
(* nan (n = 0).                                                            *)
(***************************************************************************)
EXTENDS Integers, Sequences, FiniteSets, TLC

\* ------------------------------------------------------------------ bounds
MaxRows == 4
MaxTopN == 3

\* the close values the feed may deliver (0 included: a zero previous close)
Closes == {0, 1, 2, 4}

Variants == {"v1", "v2", "v3", "REAL"}
HasProcessData == {"v2", "v3", "REAL"}

\* ------------------------------------------------------- exact rationals
Abs(x) == IF x < 0 THEN -x ELSE x
Min(a, b) == IF a < b THEN a ELSE b
Max(a, b) == IF a > b THEN a ELSE b

RECURSIVE GCD(_, _)
GCD(a, b) == IF b = 0 THEN a ELSE GCD(b, a % b)

Sgn(x) == IF x > 0 THEN 1 ELSE IF x < 0 THEN -1 ELSE 0

\* the rational n/d in lowest terms with a positive denominator; n/0 is
\* inf, -inf or nan by the sign of n
Rat(n, d) ==
    IF d = 0 THEN [n |-> Sgn(n), d |-> 0]
    ELSE LET g == GCD(Abs(n), Abs(d))
             s == IF d < 0 THEN -1 ELSE 1
         IN  [n |-> (s * n) \div g, d |-> (s * d) \div g]

RInt(k) == [n |-> k, d |-> 1]
RZero == RInt(0)
RNaN == [n |-> 0, d |-> 0]
IsFinite(a) == a.d # 0
IsNaN(a) == a.d = 0 /\ a.n = 0

\* float arithmetic with inf and nan (numpy semantics for a zero divisor)
RAdd(a, b) ==
    IF a.d = 0 /\ b.d = 0 THEN (IF a.n = b.n THEN a ELSE RNaN)
    ELSE Rat(a.n * b.d + b.n * a.d, a.d * b.d)
RSub(a, b) == RAdd(a, [n |-> -b.n, d |-> b.d])
RMul(a, b) == Rat(a.n * b.n, a.d * b.d)
RDiv(a, b) ==
    IF b.n < 0 THEN Rat(-(a.n * b.d), a.d * (-b.n))
    ELSE Rat(a.n * b.d, a.d * b.n)
RLt(a, b) ==
    IF IsNaN(a) \/ IsNaN(b) THEN FALSE
    ELSE IF a.d = 0 /\ b.d = 0 THEN a.n < b.n
    ELSE a.n * b.d < b.n * a.d
RLe(a, b) ==
    IF IsNaN(a) \/ IsNaN(b) THEN FALSE
    ELSE IF a.d = 0 /\ b.d = 0 THEN a.n <= b.n
    ELSE a.n * b.d <= b.n * a.d

\* Python None / a set value
None == <<>>
Some(v) == <<v>>
IsSet(o) == o # None
Val(o) == o[1]

\* ------------------------------------------------------------- raw rows
\* A raw field of a feed row: a numeric string, a string float() cannot
\* parse or a missing key ("bad": ValueError or KeyError), the value None
\* ("none": TypeError), the literal string 'null', or a string float()
\* parses to inf (v = 1), -inf (v = -1) or nan (v = 0).
Num(v) == [kind |-> "num", v |-> v]
Bad == [kind |-> "bad", v |-> 0]
NoneField == [kind |-> "none", v |-> 0]
Absent == [kind |-> "absent", v |-> 0]
NullStr == [kind |-> "null", v |-> 0]
NonFiniteStr(sign) == [kind |-> "nonfinite", v |-> sign]

Row(date, close, volume) == [Date |-> date, Close |-> close, Volume |-> volume]

\* the exceptions the try block of process_data catches
Caught == {"ValueError", "KeyError"}

\* float(row['Close']): a float, 'inf', '-inf' and 'nan' included
ParseClose(raw) ==
    CASE raw.kind = "num" -> [exc |-> "", v |-> RInt(raw.v)]
      [] raw.kind = "nonfinite" -> [exc |-> "", v |-> [n |-> raw.v, d |-> 0]]
      [] raw.kind = "absent" -> [exc |-> "KeyError", v |-> RZero]
      [] raw.kind = "none" -> [exc |-> "TypeError", v |-> RZero]
      [] OTHER -> [exc |-> "ValueError", v |-> RZero]

\* REAL: int(float(row['Volume']))
\* v2, v3: int(float(row['Volume'])) if row.get('Volume') and
\*         row['Volume'] != 'null' else 0
ParseVolume(variant, raw) ==
    IF variant = "REAL"
    THEN CASE raw.kind = "num" -> [exc |-> "", v |-> raw.v]
           [] raw.kind = "absent" -> [exc |-> "KeyError", v |-> 0]
           [] raw.kind = "none" -> [exc |-> "TypeError", v |-> 0]
           [] OTHER -> [exc |-> "ValueError", v |-> 0]
    ELSE CASE raw.kind = "num" -> [exc |-> "", v |-> raw.v]
           [] raw.kind \in {"absent", "none", "null"} -> [exc |-> "", v |-> 0]
           [] OTHER -> [exc |-> "ValueError", v |-> 0]

\* -------------------------------------------------------- process_data
\* daily_change = close - prev_close
DailyChange(close, prev_close) == RSub(close, prev_close)

\* mutant: the fraction is not scaled to a percentage
DailyChangePctUnscaled(daily_change, prev_close) ==
    RDiv(daily_change, prev_close)

\* daily_change_pct = (daily_change / prev_close) * 100; process_data
\* reaches it with prev_close # 0 only
DailyChangePct(daily_change, prev_close) ==
    RMul(RDiv(daily_change, prev_close), RInt(100))

\* mutant: the first entry is kept
TrimNothing(data) == data

\* data = data[1:] when data is not empty
TrimFirst(data) == IF Len(data) > 0 THEN SubSeq(data, 2, Len(data)) ELSE data

Raise(exc, skipped) == [status |-> exc, data |-> <<>>, skipped |-> skipped]

\* The for loop of process_data; i is the 1-based position of the row, so
\* Python's "i > 0" is "i > 1" here.  The result is the returned list with
\* status "ok", or the exception that leaves the function.
RECURSIVE ProcessLoop(_, _, _, _, _)
ProcessLoop(variant, rows, i, data, skipped) ==
    IF i > Len(rows)
    THEN [status |-> "ok", data |-> TrimFirst(data), skipped |-> skipped]
    ELSE
      LET row == rows[i]
          date == IF row.Date.kind = "absent"
                  THEN [exc |-> "KeyError", v |-> 0]
                  ELSE [exc |-> "", v |-> row.Date.v]
          close == ParseClose(row.Close)
          volume == ParseVolume(variant, row.Volume)
          exc == IF date.exc # "" THEN date.exc
                 ELSE IF close.exc # "" THEN close.exc
                 ELSE volume.exc
      IN  IF exc \in Caught
          THEN ProcessLoop(variant, rows, i + 1, data, skipped + 1)
          ELSE IF exc # ""
          THEN Raise(exc, skipped)
          ELSE IF i > 1 /\ Len(data) = 0
          THEN Raise("IndexError", skipped)
          ELSE IF i > 1 /\ data[Len(data)].close = RZero
          THEN Raise("ZeroDivisionError", skipped)
          ELSE
            LET prev_close == data[Len(data)].close
                daily_change ==
                    IF i > 1 THEN Some(DailyChange(close.v, prev_close))
                    ELSE None
                daily_change_pct ==
                    IF i > 1
                    THEN Some(DailyChangePct(Val(daily_change), prev_close))
                    ELSE None
                rec == [date |-> date.v, close |-> close.v,
                        volume |-> volume.v,
                        daily_change |-> daily_change,
                        daily_change_pct |-> daily_change_pct]
            IN  ProcessLoop(variant, rows, i + 1, Append(data, rec), skipped)

process_data(variant, rows) == ProcessLoop(variant, rows, 1, <<>>, 0)

\* ------------------------------------------------------- rank_movements
\* the sort key: daily_change_pct, or 0 when it is None
SortKey(d) == IF IsSet(d.daily_change_pct) THEN Val(d.daily_change_pct) ELSE RZero

\* mutant: the list is built ascending
RECURSIVE InsertAsc(_, _)
InsertAsc(s, d) ==
    IF Len(s) = 0 THEN <<d>>
    ELSE IF RLt(SortKey(d), SortKey(s[1])) THEN <<d>> \o s
    ELSE <<s[1]>> \o InsertAsc(Tail(s), d)

\* insert d into the descending list s behind every element whose key is
\* greater than or equal to d's key (equal keys keep their input order)
RECURSIVE InsertDesc(_, _)
InsertDesc(s, d) ==
    IF Len(s) = 0 THEN <<d>>
    ELSE IF RLt(SortKey(s[1]), SortKey(d)) THEN <<d>> \o s
    ELSE <<s[1]>> \o InsertDesc(Tail(s), d)

\* mutant: a descending sort that reverses the input order of equal keys
RECURSIVE SortedDescUnstable(_)
SortedDescUnstable(data) ==
    IF Len(data) = 0 THEN <<>>
    ELSE InsertDesc(SortedDescUnstable(Tail(data)), data[1])

\* sorted(data, key=..., reverse=True): a stable descending sort
RECURSIVE SortedDesc(_)
SortedDesc(data) ==
    IF Len(data) = 0 THEN <<>>
    ELSE InsertDesc(SortedDesc(SubSeq(data, 1, Len(data) - 1)), data[Len(data)])

\* mutant: the list is left as it is
NotReversed(s) == s

\* s[::-1]
RECURSIVE Reverse(_)
Reverse(s) == IF Len(s) = 0 THEN <<>> ELSE Append(Reverse(Tail(s)), s[1])

\* mutant: the last element of the slice is left out
SliceBefore(s, stop) == SubSeq(s, 1, Min(stop, Len(s)) - 1)

\* s[:stop] for stop >= 0
SliceTo(s, stop) == SubSeq(s, 1, Min(stop, Len(s)))

\* s[start:] : a negative start counts from the end, and -0 is 0
SliceFrom(s, start) ==
    LET from == IF start < 0 THEN Max(Len(s) + start, 0) ELSE Min(start, Len(s))
    IN  SubSeq(s, from + 1, Len(s))

\* mutant: the records of the last n are left out of the gains
TopGainsDeduplicated(sorted_data, n) ==
    SliceTo(sorted_data, Min(n, Max(Len(sorted_data) - n, 0)))

\* top_gains = sorted_data[:top_n]
TopGains(sorted_data, n) == SliceTo(sorted_data, n)

\* mutant: the tail is not reversed
TopLossesUnreversed(sorted_data, n) == SliceFrom(sorted_data, -n)

\* top_losses = sorted_data[-top_n:][::-1]
TopLosses(sorted_data, n) == Reverse(SliceFrom(sorted_data, -n))

\* v1: df_sorted.head(top_n) and df_sorted.tail(top_n).iloc[::-1]
PandasHead(sorted_data, n) == SubSeq(sorted_data, 1, Min(n, Len(sorted_data)))
PandasTail(sorted_data, n) ==
    SubSeq(sorted_data, Len(sorted_data) - Min(n, Len(sorted_data)) + 1,
           Len(sorted_data))

\* the permutations of 1..n
Perms(n) == {f \in [1..n -> 1..n] : \A i, j \in 1..n : i # j => f[i] # f[j]}

\* v1: df.sort_values('Daily_Change_Pct', ascending=False) uses pandas'
\* default quicksort, which is not stable: any descending arrangement of the
\* rows may result
DescendingOrders(data) ==
    {[i \in 1..Len(data) |-> data[f[i]]] : f \in
        {g \in Perms(Len(data)) :
            \A i \in 1..(Len(data) - 1) :
                RLe(SortKey(data[g[i + 1]]), SortKey(data[g[i]]))}}

\* -------------------------------------------------- calculate_statistics
RECURSIVE RSum(_)
RSum(xs) == IF Len(xs) = 0 THEN RZero ELSE RAdd(xs[1], RSum(Tail(xs)))

RECURSIVE RMaxOf(_)
RMaxOf(xs) ==
    IF Len(xs) = 1 THEN xs[1]
    ELSE LET m == RMaxOf(Tail(xs)) IN IF RLt(xs[1], m) THEN m ELSE xs[1]

RECURSIVE RMinOf(_)
RMinOf(xs) ==
    IF Len(xs) = 1 THEN xs[1]
    ELSE LET m == RMinOf(Tail(xs)) IN IF RLt(m, xs[1]) THEN m ELSE xs[1]

RSquare(x) == RMul(x, x)

\* [d['daily_change_pct'] for d in data if d['daily_change_pct'] is not None]
RECURSIVE Changes(_)
Changes(data) ==
    IF Len(data) = 0 THEN <<>>
    ELSE IF IsSet(data[1].daily_change_pct)
         THEN <<Val(data[1].daily_change_pct)>> \o Changes(Tail(data))
         ELSE Changes(Tail(data))

\* sum((x - avg) ** 2 for x in changes)
RECURSIVE SumSqDev(_, _)
SumSqDev(xs, avg) ==
    IF Len(xs) = 0 THEN RZero
    ELSE RAdd(RSquare(RSub(xs[1], avg)), SumSqDev(Tail(xs), avg))

\* mutant: the sample variance
VarianceOfSample(changes, avg) ==
    RDiv(SumSqDev(changes, avg), RInt(Len(changes) - 1))

\* variance = sum((x - avg_change) ** 2 for x in changes) / len(changes)
Variance(changes, avg) == RDiv(SumSqDev(changes, avg), RInt(Len(changes)))

\* x ** 0.5 of a rational x >= 0, kept exact as its radicand; NaN is the
\* value pandas gives for the deviation of fewer than two observations
Sqrt(x) == [kind |-> "sqrt", of |-> x]
NaN == [kind |-> "nan", of |-> RZero]
IsZeroStd(sd) == sd.kind = "sqrt" /\ sd.of = RZero

\* mutant: the date of the last record with the value
RECURSIVE LastDateWith(_, _)
LastDateWith(data, value) ==
    IF data[Len(data)].daily_change_pct = Some(value) THEN data[Len(data)].date
    ELSE LastDateWith(SubSeq(data, 1, Len(data) - 1), value)

\* next(d['date'] for d in data if d['daily_change_pct'] == value)
RECURSIVE FirstDateWith(_, _)
FirstDateWith(data, value) ==
    IF data[1].daily_change_pct = Some(value) THEN data[1].date
    ELSE FirstDateWith(Tail(data), value)

\* the dict {} is the empty tuple, a filled dict is a one-element tuple
EmptyDict == <<>>

calculate_statistics(data) ==
    LET changes == Changes(data) IN
    IF Len(changes) = 0 THEN EmptyDict
    ELSE
      LET max_gain == RMaxOf(changes)
          max_loss == RMinOf(changes)
          avg_change == RDiv(RSum(changes), RInt(Len(changes)))
          variance == Variance(changes, avg_change)
          std_dev == Sqrt(variance)
      IN  <<[max_gain_pct |-> max_gain,
             max_gain_date |-> FirstDateWith(data, max_gain),
             max_loss_pct |-> max_loss,
             max_loss_date |-> FirstDateWith(data, max_loss),
             avg_daily_change_pct |-> avg_change,
             volatility_std |-> std_dev,
             total_days |-> Len(changes)]>>

\* v1: Series.std() of pandas divides by n - 1 (ddof = 1) and is NaN for
\* fewer than two values and for a column that holds inf
PandasStd(changes) ==
    IF Len(changes) < 2 THEN NaN
    ELSE LET avg == RDiv(RSum(changes), RInt(Len(changes)))
             variance == RDiv(SumSqDev(changes, avg), RInt(Len(changes) - 1))
         IN  IF IsFinite(variance) THEN Sqrt(variance) ELSE NaN

\* v1: the statistics main and save_results take from the Daily_Change_Pct
\* column (max, idxmax, min, idxmin, mean, std) of a non-empty frame
PandasStatistics(data) ==
    LET changes == Changes(data)
        max_gain == RMaxOf(changes)
        max_loss == RMinOf(changes)
    IN  <<[max_gain_pct |-> max_gain,
           max_gain_date |-> FirstDateWith(data, max_gain),
           max_loss_pct |-> max_loss,
           max_loss_date |-> FirstDateWith(data, max_loss),
           avg_daily_change_pct |-> RDiv(RSum(changes), RInt(Len(changes))),
           volatility_std |-> PandasStd(changes),
           total_days |-> Len(data)]>>

\* ------------------------------------------------------ calculate_sigma
\* mutant: a zero deviation gives sigma 0 and raises nothing
CalculateSigmaOrZero(value, mean, std_dev) ==
    LET diff == RSub(value, mean)
    IN  [exc |-> "",
         sign |-> IF IsZeroStd(std_dev) THEN 0 ELSE Sgn(diff.n),
         sq |-> IF IsZeroStd(std_dev) THEN RZero
                ELSE RDiv(RSquare(diff), std_dev.of)]

\* (value - mean) / std_dev: a float division, which raises
\* ZeroDivisionError when std_dev is 0.  The quotient by a square root is
\* kept as its sign and its square.
calculate_sigma(value, mean, std_dev) ==
    IF IsZeroStd(std_dev)
    THEN [exc |-> "ZeroDivisionError", sign |-> 0, sq |-> RZero]
    ELSE LET diff == RSub(value, mean)
         IN  [exc |-> "",
              sign |-> IF diff.n > 0 THEN 1 ELSE IF diff.n < 0 THEN -1 ELSE 0,
              sq |-> RDiv(RSquare(diff), std_dev.of)]

\* ---------------------------------------------------------- formatting
Pow10(k) == IF k = 2 THEN 100 ELSE IF k = 4 THEN 10000 ELSE 1

\* a formatted number: the text of a fixed-point number is the count of its
\* last-place units; the other texts are "inf", "-inf" and "nan"
Fixed(units) == [text |-> "fixed", units |-> units]
NonFinite(x) ==
    [text |-> IF x.n > 0 THEN "inf" ELSE IF x.n < 0 THEN "-inf" ELSE "nan",
     units |-> 0]

\* f"{x:.<places>f}": x rounded to the nearest multiple of 10^-places (ties
\* to even)
Fmt(x, places) ==
    IF ~IsFinite(x) THEN NonFinite(x)
    ELSE
      LET num == x.n * Pow10(places)
          q == num \div x.d
          rem == num % x.d
      IN  Fixed(IF 2 * rem > x.d THEN q + 1
                ELSE IF 2 * rem < x.d THEN q
                ELSE IF q % 2 = 0 THEN q ELSE q + 1)

\* k * k <= 40000 * x for a rational x >= 0, without forming 40000 * x.n
SquareLe(k, x) ==
    LET q == k \div 200
        r == k % 200
        low == 400 * q * r + r * r
        a == q * q + low \div 40000
        b == low % 40000
        whole == x.n \div x.d
        frac == x.n % x.d
    IN  a < whole \/ (a = whole /\ b * x.d <= 40000 * frac)

\* floor(200 * sqrt(x)), by bisection on lo <= root < hi
RECURSIVE Sqrt200In(_, _, _)
Sqrt200In(x, lo, hi) ==
    IF hi - lo <= 1 THEN lo
    ELSE LET mid == (lo + hi) \div 2
         IN  IF SquareLe(mid, x) THEN Sqrt200In(x, mid, hi)
             ELSE Sqrt200In(x, lo, mid)

\* sqrt(x) rounded to the nearest hundredth, as the count of hundredths
\* (for sqrt(x) < 2000, which every deviation of percentages here is)
SqrtHundredths(x) == (Sqrt200In(x, 0, 400000) + 1) \div 2

\* f"{sigma:.2f}": sign * sqrt(sq) rounded to hundredths
FmtSigma(sigma) ==
    sigma.sign * SqrtHundredths(sigma.sq)

\* f"{std:.2f}" of a standard deviation ("nan" is None)
FmtStd(sd) ==
    IF sd.kind = "nan" THEN None
    ELSE Some(SqrtHundredths(sd.of))

\* ---------------------------------------------------------- save_results
\* one entry of top_gains / top_losses of the JSON report (v2, v3;
\* format_results of v1); 'N/A' is None
Entry(d) ==
    [Date |-> d.date,
     Close_Price |-> Fmt(d.close, 2),
     Daily_Change |-> IF IsSet(d.daily_change)
                      THEN Some(Fmt(Val(d.daily_change), 2)) ELSE None,
     Daily_Change_Pct |-> IF IsSet(d.daily_change_pct)
                          THEN Some(Fmt(Val(d.daily_change_pct), 2)) ELSE None,
     Volume |-> d.volume]

\* REAL: the entry with its Sigma, the string f"{sigma:.2f}σ"
EntryWithSigma(d, sigma) ==
    [Date |-> d.date,
     Close_Price |-> Fmt(d.close, 2),
     Daily_Change |-> IF IsSet(d.daily_change)
                      THEN Some(Fmt(Val(d.daily_change), 2)) ELSE None,
     Daily_Change_Pct |-> IF IsSet(d.daily_change_pct)
                          THEN Some(Fmt(Val(d.daily_change_pct), 2)) ELSE None,
     Sigma |-> Some(FmtSigma(sigma)),
     Volume |-> d.volume]

\* 'data_period' of the report
DataPeriod(data, stats) ==
    [start |-> IF Len(data) > 0 THEN Some(data[1].date) ELSE None,
     end |-> IF Len(data) > 0 THEN Some(data[Len(data)].date) ELSE None,
     total_days |-> IF stats = EmptyDict THEN 0 ELSE Val(stats).total_days]

\* 'statistics' of the report: stats.get(key, default) formatted; the mean
\* has 4 decimals in REAL and 2 in v2 and v3
Statistics(variant, stats) ==
    LET places == IF variant = "REAL" THEN 4 ELSE 2 IN
    IF stats = EmptyDict
    THEN [max_gain_pct |-> Fmt(RZero, 2), max_gain_date |-> None,
          max_loss_pct |-> Fmt(RZero, 2), max_loss_date |-> None,
          avg_daily_change_pct |-> Fmt(RZero, places),
          volatility_std |-> Some(0)]
    ELSE [max_gain_pct |-> Fmt(Val(stats).max_gain_pct, 2),
          max_gain_date |-> Some(Val(stats).max_gain_date),
          max_loss_pct |-> Fmt(Val(stats).max_loss_pct, 2),
          max_loss_date |-> Some(Val(stats).max_loss_date),
          avg_daily_change_pct |-> Fmt(Val(stats).avg_daily_change_pct, places),
          volatility_std |-> FmtStd(Val(stats).volatility_std)]

\* the sigma of every movement of a list, in list order (REAL)
Sigmas(movements, stats) ==
    [i \in 1..Len(movements) |->
        calculate_sigma(Val(movements[i].daily_change_pct),
                        Val(stats).avg_daily_change_pct,
                        Val(stats).volatility_std)]

\* save_results(top_gains, top_losses, data, stats) of v2, v3 and REAL: the
\* report it writes, or the exception that leaves it before any file is
\* opened
save_results(variant, gains, losses, data, stats) ==
    IF variant = "REAL" /\ stats = EmptyDict
    THEN [exc |-> "KeyError", report |-> None]
    ELSE IF variant = "REAL" /\
            \E i \in 1..Len(gains \o losses) :
                Sigmas(gains \o losses, stats)[i].exc # ""
    THEN [exc |-> "ZeroDivisionError", report |-> None]
    ELSE
      [exc |-> "",
       report |-> Some(
         [data_period |-> DataPeriod(data, stats),
          top_gains |->
            IF variant = "REAL"
            THEN [i \in 1..Len(gains) |->
                    EntryWithSigma(gains[i], Sigmas(gains, stats)[i])]
            ELSE [i \in 1..Len(gains) |-> Entry(gains[i])],
          top_losses |->
            IF variant = "REAL"
            THEN [i \in 1..Len(losses) |->
                    EntryWithSigma(losses[i], Sigmas(losses, stats)[i])]
            ELSE [i \in 1..Len(losses) |-> Entry(losses[i])],
          statistics |-> Statistics(variant, stats)])]

\* v1: save_results(top_gains, top_losses, df) of a non-empty frame; the
\* statistics carry no dates and the mean has 2 decimals
PandasSaveResults(gains, losses, data) ==
    LET stats == PandasStatistics(data) IN
    Some([data_period |-> [start |-> Some(data[1].date),
                           end |-> Some(data[Len(data)].date),
                           total_days |-> Len(data)],
          top_gains |-> [i \in 1..Len(gains) |-> Entry(gains[i])],
          top_losses |-> [i \in 1..Len(losses) |-> Entry(losses[i])],
          statistics |->
            [max_gain_pct |-> Fmt(Val(stats).max_gain_pct, 2),
             max_loss_pct |-> Fmt(Val(stats).max_loss_pct, 2),
             avg_daily_change_pct |-> Fmt(Val(stats).avg_daily_change_pct, 2),
             volatility_std |-> FmtStd(Val(stats).volatility_std)]])

\* the files one successful save_results writes
OutputFiles == {"silver_price_analysis.json", "silver_price_data_full.csv",
                "silver_top_gains.csv", "silver_top_losses.csv",
                "silver_analysis_report.txt"}

\* ------------------------------------------------------------ the feed
\* the rows a feed may return: dates ascending (the date of the row at
\* position i is i), a numeric volume, and a close that is a number, an
\* unparseable string or None.  The frame of v1 holds numbers only.
CloseFields(v) ==
    IF v = "v1" THEN {Num(c) : c \in Closes}
    ELSE {Num(c) : c \in Closes} \cup {Bad, NoneField}

Feeds(v) ==
    UNION {{[i \in 1..n |-> Row(Num(i), f[i], Num(7))] :
                f \in [1..n -> CloseFields(v)]} : n \in 0..MaxRows}

\* v3: fetch_sample_data() generates a non-empty random walk of weekday
\* closes between 10 and 40; three of its rows stand for it
SampleRows ==
    <<Row(Num(1), Num(20), Num(7)),
      Row(Num(2), Num(21), Num(7)),
      Row(Num(3), Num(19), Num(7))>>

\* the rows of the scenario of four days with closes 10.00, 10.00, 11.00 and
\* 9.90, counted in cents (no percent change depends on the unit)
ScenarioRows ==
    <<Row(Num(1), Num(1000), Num(7)),
      Row(Num(2), Num(1000), Num(7)),
      Row(Num(3), Num(1100), Num(7)),
      Row(Num(4), Num(990), Num(7))>>

\* v1: calculate_movements(df): diff() and pct_change() * 100, which divide
\* without raising (a zero previous close gives inf, or nan for 0/0), and
\* dropna(), which removes the first row and every row whose percentage is
\* nan
RECURSIVE calculate_movements(_)
calculate_movements(rows) ==
    IF Len(rows) < 2 THEN <<>>
    ELSE
      LET n == Len(rows)
          close == RInt(rows[n].Close.v)
          prev_close == RInt(rows[n - 1].Close.v)
          daily_change == DailyChange(close, prev_close)
          daily_change_pct == DailyChangePct(daily_change, prev_close)
          before == calculate_movements(SubSeq(rows, 1, n - 1))
      IN  IF IsNaN(daily_change_pct) THEN before
          ELSE Append(before,
                 [date |-> rows[n].Date.v, close |-> close,
                  volume |-> rows[n].Volume.v,
                  daily_change |-> Some(daily_change),
                  daily_change_pct |-> Some(daily_change_pct)])

\* --------------------------------------------------------------- state
VARIABLES
    variant,      \* which script runs
    top_n,        \* the movement count handed to rank_movements (main
                  \* passes 50, which exceeds every series length here)
    feed,         \* what the data provider will return
    pc,           \* position of main
    rows,         \* main's rows (v1: df as fetched)
    data,         \* main's data (v1: df after calculate_movements)
    skipped,      \* number of "Skipping row" warnings printed
    stats,        \* main's stats
    top_gains,
    top_losses,
    report,       \* the JSON report written, None before
    files,        \* the output files written
    err,          \* the uncaught exception that ended the run, "" if none
    msg,          \* the error message main printed before returning early
    calls         \* the pipeline functions main has called

vars == <<variant, top_n, feed, pc, rows, data, skipped, stats, top_gains,
          top_losses, report, files, err, msg, calls>>

params == <<variant, top_n, feed>>

Init ==
    /\ variant \in Variants
    /\ top_n \in 0..MaxTopN
    /\ feed \in Feeds(variant) \cup {ScenarioRows}
    /\ pc = "start"
    /\ rows = <<>>
    /\ data = <<>>
    /\ skipped = 0
    /\ stats = EmptyDict
    /\ top_gains = <<>>
    /\ top_losses = <<>>
    /\ report = None
    /\ files = {}
    /\ err = ""
    /\ msg = ""
    /\ calls = {}

\* rows = fetch_...(); v3 replaces an empty result by fetch_sample_data()
Fetch ==
    /\ pc = "start"
    /\ rows' = IF variant = "v3" /\ Len(feed) = 0 THEN SampleRows ELSE feed
    /\ calls' = calls \cup {"fetch"}
    /\ pc' = "fetched"
    /\ UNCHANGED <<params, data, skipped, stats, top_gains, top_losses,
                   report, files, err, msg>>

\* if not rows: print("Error: Could not retrieve ..."); return
CheckRows ==
    /\ pc = "fetched"
    /\ IF Len(rows) = 0
       THEN pc' = "failed" /\ msg' = "Error: Could not retrieve silver price data."
       ELSE pc' = "checked" /\ msg' = msg
    /\ UNCHANGED <<params, rows, data, skipped, stats, top_gains, top_losses,
                   report, files, err, calls>>

\* v2, v3, REAL: data = process_data(rows)
ProcessData ==
    /\ pc = "checked"
    /\ variant \in HasProcessData
    /\ LET r == process_data(variant, rows) IN
         /\ skipped' = r.skipped
         /\ data' = r.data
         /\ IF r.status = "ok"
            THEN pc' = "processed" /\ err' = err
            ELSE pc' = "crashed" /\ err' = r.status
    /\ calls' = calls \cup {"process_data"}
    /\ UNCHANGED <<params, rows, stats, top_gains, top_losses, report, files,
                   msg>>

\* v1: df = calculate_movements(df); main goes on to rank_movements
CalculateMovements ==
    /\ pc = "checked"
    /\ variant = "v1"
    /\ data' = calculate_movements(rows)
    /\ calls' = calls \cup {"calculate_movements"}
    /\ pc' = "analyzed"
    /\ UNCHANGED <<params, rows, skipped, stats, top_gains, top_losses,
                   report, files, err, msg>>

\* mutant: main goes on with an empty series
CheckDataNoHalt ==
    /\ pc = "processed"
    /\ pc' = "valid" /\ msg' = msg
    /\ UNCHANGED <<params, rows, data, skipped, stats, top_gains, top_losses,
                   report, files, err, calls>>

\* v2, v3, REAL: if not data: print("Error: No valid data ..."); return
CheckData ==
    /\ pc = "processed"
    /\ IF Len(data) = 0
       THEN pc' = "failed" /\ msg' = "Error: No valid data to analyze."
       ELSE pc' = "valid" /\ msg' = msg
    /\ UNCHANGED <<params, rows, data, skipped, stats, top_gains, top_losses,
                   report, files, err, calls>>

\* v2, v3, REAL: stats = calculate_statistics(data)
CalculateStatistics ==
    /\ pc = "valid"
    /\ stats' = calculate_statistics(data)
    /\ calls' = calls \cup {"calculate_statistics"}
    /\ pc' = "analyzed"
    /\ UNCHANGED <<params, rows, data, skipped, top_gains, top_losses, report,
                   files, err, msg>>

\* top_gains, top_losses = rank_movements(data, top_n)
RankMovements ==
    /\ pc = "analyzed"
    /\ IF variant = "v1"
       THEN \E df_sorted \in DescendingOrders(data) :
                /\ top_gains' = PandasHead(df_sorted, top_n)
                /\ top_losses' = Reverse(PandasTail(df_sorted, top_n))
       ELSE LET sorted_data == SortedDesc(data) IN
                /\ top_gains' = TopGains(sorted_data, top_n)
                /\ top_losses' = TopLosses(sorted_data, top_n)
    /\ calls' = calls \cup {"rank_movements"}
    /\ pc' = "ranked"
    /\ UNCHANGED <<params, rows, data, skipped, stats, report, files, err, msg>>

\* the summary main prints.  REAL computes the sigma of the first ten gains
\* and losses; v1 takes its statistics from the frame, and idxmax() of an
\* empty column raises ValueError; the others read stats['max_gain_pct'],
\* a KeyError on the empty dict.
\* top_gains[:10] and top_losses[:10]
TopDisplayed == 10
DisplayedMovements ==
    SliceTo(top_gains, TopDisplayed) \o SliceTo(top_losses, TopDisplayed)

DisplaySummary ==
    /\ pc = "ranked"
    /\ CASE variant = "v1" ->
              IF Len(data) = 0
              THEN pc' = "crashed" /\ err' = "ValueError" /\ stats' = stats
              ELSE pc' = "displayed" /\ err' = err
                   /\ stats' = PandasStatistics(data)
         [] variant # "v1" /\ stats = EmptyDict ->
              pc' = "crashed" /\ err' = "KeyError" /\ stats' = stats
         [] variant = "REAL" /\ stats # EmptyDict ->
              /\ stats' = stats
              /\ IF \E i \in 1..Len(DisplayedMovements) :
                        Sigmas(DisplayedMovements, stats)[i].exc # ""
                 THEN pc' = "crashed" /\ err' = "ZeroDivisionError"
                 ELSE pc' = "displayed" /\ err' = err
         [] OTHER -> pc' = "displayed" /\ err' = err /\ stats' = stats
    /\ UNCHANGED <<params, rows, data, skipped, top_gains, top_losses, report,
                   files, msg, calls>>

\* save_results(top_gains, top_losses, data, stats)
SaveResults ==
    /\ pc = "displayed"
    /\ calls' = calls \cup {"save_results"}
    /\ IF variant = "v1"
       THEN /\ report' = PandasSaveResults(top_gains, top_losses, data)
            /\ files' = OutputFiles
            /\ pc' = "done" /\ err' = err
       ELSE LET r == save_results(variant, top_gains, top_losses, data, stats)
            IN  IF r.exc = ""
                THEN /\ report' = r.report
                     /\ files' = OutputFiles
                     /\ pc' = "done" /\ err' = err
                ELSE /\ report' = report
                     /\ files' = files
                     /\ pc' = "crashed" /\ err' = r.exc
    /\ UNCHANGED <<params, rows, data, skipped, stats, top_gains, top_losses,
                   msg>>

Next ==
    \/ Fetch
    \/ CheckRows
    \/ ProcessData
    \/ CalculateMovements
    \/ CheckData
    \/ CalculateStatistics
    \/ RankMovements
    \/ DisplaySummary
    \/ SaveResults

Spec == Init /\ [][Next]_vars

\* ------------------------------------------------- the functions, called
\* A caller other than main calls the functions of v2, v3 and REAL one after
\* the other on rows of its own: process_data, calculate_statistics,
\* rank_movements, save_results, without the checks and the display of main.
MaxCallRows == 3

\* the closes and the Volume fields of the caller's rows: a number, a
\* missing key, None or the string 'null'
CallCloses == {1, 2}
VolumeFields == {Num(7), Absent, NoneField, NullStr}

CallRows ==
    UNION {{[i \in 1..n |-> Row(Num(i), Num(f[i][1]), f[i][2])] :
                f \in [1..n -> CallCloses \X VolumeFields]} :
           n \in 0..MaxCallRows}

InitCalls ==
    /\ variant \in HasProcessData
    /\ top_n \in 0..MaxTopN
    /\ feed \in CallRows
    /\ pc = "call"
    /\ rows = <<>>
    /\ data = <<>>
    /\ skipped = 0
    /\ stats = EmptyDict
    /\ top_gains = <<>>
    /\ top_losses = <<>>
    /\ report = None
    /\ files = {}
    /\ err = ""
    /\ msg = ""
    /\ calls = {}

\* data = process_data(rows)
CallProcessData ==
    /\ pc = "call"
    /\ rows' = feed
    /\ LET r == process_data(variant, feed) IN
         /\ skipped' = r.skipped
         /\ data' = r.data
         /\ IF r.status = "ok"
            THEN pc' = "returned_data" /\ err' = err
            ELSE pc' = "crashed" /\ err' = r.status
    /\ calls' = calls \cup {"process_data"}
    /\ UNCHANGED <<params, stats, top_gains, top_losses, report, files, msg>>

\* stats = calculate_statistics(data), of an empty list too
CallCalculateStatistics ==
    /\ pc = "returned_data"
    /\ stats' = calculate_statistics(data)
    /\ calls' = calls \cup {"calculate_statistics"}
    /\ pc' = "returned_stats"
    /\ UNCHANGED <<params, rows, data, skipped, top_gains, top_losses, report,
                   files, err, msg>>

\* top_gains, top_losses = rank_movements(data, top_n)
CallRankMovements ==
    /\ pc = "returned_stats"
    /\ LET sorted_data == SortedDesc(data) IN
         /\ top_gains' = TopGains(sorted_data, top_n)
         /\ top_losses' = TopLosses(sorted_data, top_n)
    /\ calls' = calls \cup {"rank_movements"}
    /\ pc' = "returned_ranks"
    /\ UNCHANGED <<params, rows, data, skipped, stats, report, files, err, msg>>

\* save_results(top_gains, top_losses, data, stats)
CallSaveResults ==
    /\ pc = "returned_ranks"
    /\ calls' = calls \cup {"save_results"}
    /\ LET r == save_results(variant, top_gains, top_losses, data, stats) IN
         IF r.exc = ""
         THEN /\ report' = r.report
              /\ files' = OutputFiles
              /\ pc' = "done" /\ err' = err
         ELSE /\ report' = report
              /\ files' = files
              /\ pc' = "crashed" /\ err' = r.exc
    /\ UNCHANGED <<params, rows, data, skipped, stats, top_gains, top_losses,
                   msg>>

NextCalls ==
    \/ CallProcessData
    \/ CallCalculateStatistics
    \/ CallRankMovements
    \/ CallSaveResults

SpecCalls == InitCalls /\ [][NextCalls]_vars

\* process_data called on rows whose close may be the string 'inf', '-inf'
\* or 'nan'
NonFiniteCloses ==
    {Num(1), Num(2), NonFiniteStr(1), NonFiniteStr(-1), NonFiniteStr(0)}

NonFiniteRows ==
    UNION {{[i \in 1..n |-> Row(Num(i), f[i], Num(7))] :
                f \in [1..n -> NonFiniteCloses]} : n \in 0..MaxCallRows}

InitNonFinite ==
    /\ variant \in HasProcessData
    /\ top_n = 1
    /\ feed \in NonFiniteRows
    /\ pc = "call"
    /\ rows = <<>>
    /\ data = <<>>
    /\ skipped = 0
    /\ stats = EmptyDict
    /\ top_gains = <<>>
    /\ top_losses = <<>>
    /\ report = None
    /\ files = {}
    /\ err = ""
    /\ msg = ""
    /\ calls = {}

NextNonFinite == CallProcessData

SpecNonFinite == InitNonFinite /\ [][NextNonFinite]_vars

\* every run: main, or the functions called one after the other
InitRuns == Init \/ InitCalls

NextRuns ==
    \/ Next
    \/ NextCalls

SpecRuns == InitRuns /\ [][NextRuns]_vars

\* ================================================================ claims
\* the outcome of the call of process_data in main
ProcessReturned == variant \in HasProcessData /\ "process_data" \in calls
                   /\ ~(pc = "crashed" /\ "calculate_statistics" \notin calls)
ProcessRaised == variant \in HasProcessData /\ pc = "crashed"
                 /\ "calculate_statistics" \notin calls
Ranked == "rank_movements" \in calls

\* every row of the input coerces: its close is a number
AllCoerce(rs) == \A i \in 1..Len(rs) : rs[i].Close.kind = "num"
\* the date or the close of the row cannot be coerced: float() raises
\* ValueError on the close, or a key is missing
Malformed(row) == row.Close.kind \in {"bad", "absent"} \/ row.Date.kind = "absent"
\* no row that is followed by another row has close 0
NoZeroPrevClose(rs) == \A i \in 1..(Len(rs) - 1) : rs[i].Close.v # 0

\* data is the series of day-over-day changes of the closes of rs
IsReturnSeriesOf(rs) ==
    /\ Len(data) = Len(rs) - 1
    /\ \A i \in 1..Len(data) :
          /\ data[i].date = rs[i + 1].Date.v
          /\ data[i].close = RInt(rs[i + 1].Close.v)
          /\ data[i].daily_change
               = Some(RInt(rs[i + 1].Close.v - rs[i].Close.v))
          /\ IsSet(data[i].daily_change_pct)
          /\ Val(data[i].daily_change_pct).n * rs[i].Close.v
               = 100 * (rs[i + 1].Close.v - rs[i].Close.v)
                     * Val(data[i].daily_change_pct).d

\* C1 (as stated): for every input of L >= 2 rows that all coerce,
\* process_data returns exactly L-1 records in input order, record i with
\* daily_change = close[i+1] - close[i] and
\* daily_change_pct = daily_change / close[i] * 100.
C1_Original ==
    (variant \in HasProcessData /\ "process_data" \in calls
       /\ AllCoerce(rows) /\ Len(rows) >= 2)
    => (ProcessReturned /\ IsReturnSeriesOf(rows))

\* C1 (amended): for every input of L >= 2 rows that all coerce and in which
\* no row but the last has close 0, process_data returns exactly L-1 records
\* in input order, record i with daily_change = close[i+1] - close[i] and
\* daily_change_pct = daily_change / close[i] * 100; when a row other than
\* the last has close 0 the call raises ZeroDivisionError and returns nothing.
C1_ReturnSeries ==
    (variant \in HasProcessData /\ "process_data" \in calls
       /\ AllCoerce(rows) /\ Len(rows) >= 2)
    => IF NoZeroPrevClose(rows)
       THEN ProcessReturned /\ IsReturnSeriesOf(rows)
       ELSE ProcessRaised /\ err = "ZeroDivisionError"

C1_Witness ==
    /\ pc = "processed" /\ AllCoerce(rows) /\ Len(rows) >= 3
    /\ Len(data) = Len(rows) - 1
    /\ \E i \in 1..Len(data) : Val(data[i].daily_change) # RZero

\* s without its element at position k
RemoveAt(s, k) == SubSeq(s, 1, k - 1) \o SubSeq(s, k + 1, Len(s))

\* C2: for every position (position 0 included) of a row whose date or close
\* cannot be coerced, process_data skips the row with a diagnostic and
\* returns normally, and its result is the result on the input without that
\* row: a malformed row never aborts a run that succeeds without it.
C2_SkipsMalformedRow ==
    (variant \in HasProcessData /\ "process_data" \in calls)
    => \A k \in 1..Len(rows) :
          Malformed(rows[k])
          => LET r == process_data(variant, RemoveAt(rows, k))
             IN  r.status = "ok"
                 => /\ ProcessReturned
                    /\ data = r.data
                    /\ skipped = r.skipped + 1

\* C3: every record of the list process_data returns has daily_change and
\* daily_change_pct set, whatever mix of valid and malformed rows it was
\* given.
C3_NoUnsetChange ==
    ProcessReturned
    => \A i \in 1..Len(data) :
          IsSet(data[i].daily_change) /\ IsSet(data[i].daily_change_pct)

C3_Witness ==
    /\ pc = "processed" /\ skipped >= 1 /\ Len(data) >= 2

\* the records of data that a ranked list does not hold (dates are unique)
NotIn(list) ==
    {i \in 1..Len(data) : \A j \in 1..Len(list) : list[j].date # data[i].date}

\* C4: for N >= 1, every record not in top_gains has daily_change_pct <= the
\* smallest in top_gains, and every record not in top_losses has
\* daily_change_pct >= the largest in top_losses.
C4_SelectsExtremes ==
    (Ranked /\ top_n >= 1)
    => /\ \A i \in NotIn(top_gains) : \A j \in 1..Len(top_gains) :
             RLe(SortKey(data[i]), SortKey(top_gains[j]))
       /\ \A i \in NotIn(top_losses) : \A j \in 1..Len(top_losses) :
             RLe(SortKey(top_losses[j]), SortKey(data[i]))

C4_Witness ==
    /\ pc = "ranked" /\ top_n >= 1 /\ NotIn(top_gains) # {}
    /\ NotIn(top_losses) # {}
    /\ \E i, j \in 1..Len(data) : RLt(SortKey(data[i]), SortKey(data[j]))

\* C5: for a non-empty return series and N >= 1, top_gains is ordered by
\* daily_change_pct non-increasing and top_losses non-decreasing, so
\* top_gains[0] carries the maximum and top_losses[0] the minimum of the
\* whole series.
C5_Ordered ==
    (Ranked /\ top_n >= 1 /\ Len(data) >= 1)
    => /\ Len(top_gains) >= 1 /\ Len(top_losses) >= 1
       /\ \A i \in 1..(Len(top_gains) - 1) :
             RLe(SortKey(top_gains[i + 1]), SortKey(top_gains[i]))
       /\ \A i \in 1..(Len(top_losses) - 1) :
             RLe(SortKey(top_losses[i]), SortKey(top_losses[i + 1]))
       /\ \A i \in 1..Len(data) :
             /\ RLe(SortKey(data[i]), SortKey(top_gains[1]))
             /\ RLe(SortKey(top_losses[1]), SortKey(data[i]))

C5_Witness ==
    /\ pc = "ranked" /\ top_n >= 2 /\ Len(top_gains) >= 2
    /\ RLt(SortKey(top_gains[2]), SortKey(top_gains[1]))
    /\ RLt(SortKey(top_losses[1]), SortKey(top_losses[2]))
    /\ top_gains[1].date # data[1].date

\* C6: for every N >= 0 (N = 0 included) and every return series of length
\* M, top_gains and top_losses each have length exactly min(N, M).
C6_Lengths ==
    Ranked
    => /\ Len(top_gains) = Min(top_n, Len(data))
       /\ Len(top_losses) = Min(top_n, Len(data))

\* the mean and the mean of the squares of the percent changes of data
MeanOfChanges == RDiv(RSum(Changes(data)), RInt(Len(data)))
MeanOfSquares ==
    RDiv(RSum([i \in 1..Len(data) |-> RSquare(Changes(data)[i])]),
         RInt(Len(data)))

\* C7: in every variant the reported volatility is the population standard
\* deviation: volatility_std^2 = (sum of x_i^2)/n - mean^2, where mean is
\* the reported avg_daily_change_pct = (sum of x_i)/n.
C7_PopulationStd ==
    (stats # EmptyDict)
    => /\ Val(stats).avg_daily_change_pct = MeanOfChanges
       /\ Val(stats).volatility_std.kind = "sqrt"
       /\ Val(stats).volatility_std.of
            = RSub(MeanOfSquares, RSquare(MeanOfChanges))

\* the explicit marker of an undefined sigma in a report entry
Undefined == None

\* C8: when the standard deviation of the return series is 0, every sigma
\* of every ranked movement is surfaced in the report as an explicit
\* 'undefined' marker, never as the result of a division by zero.
C8_UndefinedSigma ==
    (variant = "REAL" /\ top_n >= 1 /\ stats # EmptyDict
       /\ IsZeroStd(Val(stats).volatility_std) /\ pc \in {"crashed", "done"})
    => /\ err # "ZeroDivisionError"
       /\ pc = "done"
       /\ \A i \in 1..Len(Val(report).top_gains) :
             Val(report).top_gains[i].Sigma = Undefined
       /\ \A i \in 1..Len(Val(report).top_losses) :
             Val(report).top_losses[i].Sigma = Undefined

\* process_data has returned a zero-length return series
EmptyReturnSeries == ProcessReturned /\ Len(data) = 0
Downstream == {"calculate_statistics", "rank_movements", "save_results"}

\* C9: in main, whenever process_data yields a zero-length return series the
\* run halts with a failure message and from then on never calls
\* calculate_statistics, rank_movements or save_results; no output file is
\* written.
C9_EmptySeriesHalts ==
    /\ [](EmptyReturnSeries
            => /\ pc \in {"processed", "failed"}
               /\ pc = "failed" => msg = "Error: No valid data to analyze."
               /\ calls \cap Downstream = {}
               /\ files = {} /\ report = None)
    /\ [][(EmptyReturnSeries /\ pc = "processed")
            => (pc' = "failed" /\ calls' = calls /\ files' = {})]_vars

C9_Witness ==
    /\ pc = "failed" /\ "process_data" \in calls /\ Len(rows) >= 2
    /\ skipped >= 1

\* C10: when the feed returns zero rows, every variant's main halts with a
\* failure and computes and writes no report; no other data is substituted
\* for the empty feed.
C10_EmptyFeedHalts ==
    (Len(feed) = 0 /\ "fetch" \in calls)
    => /\ Len(rows) = 0
       /\ pc \in {"fetched", "failed"}
       /\ calls = {"fetch"}
       /\ files = {} /\ report = None

\* the return calculation of the variant has been called
ReturnsCalculated ==
    "process_data" \in calls \/ "calculate_movements" \in calls
\* a row that is followed by another row has close 0
ZeroPrevClose(rs) == \E i \in 1..(Len(rs) - 1) : rs[i].Close.v = 0
\* some record of the list carries an infinite or nan percent change
HasNonFinite(list) ==
    \E i \in 1..Len(list) : ~IsFinite(SortKey(list[i]))

\* C11: when an accepted observation with close = 0 is followed by another
\* accepted observation, the return calculation fails with an explicit
\* division by zero and yields no return series; no infinite or nan percent
\* change flows on into ranking, statistics or the report.
C11_ZeroCloseRaises ==
    (ReturnsCalculated /\ AllCoerce(rows) /\ ZeroPrevClose(rows))
    => /\ pc = "crashed" /\ err = "ZeroDivisionError"
       /\ Len(data) = 0 /\ ~HasNonFinite(data)
       /\ calls \cap {"rank_movements", "save_results"} = {}
       /\ report = None

\* the positions of the rows process_data accepts as price observations
Accepted(rs) == {i \in 1..Len(rs) : rs[i].Close.kind = "num"}
FirstAccepted(rs) == CHOOSE i \in Accepted(rs) : \A j \in Accepted(rs) : i <= j
LastAccepted(rs) == CHOOSE i \in Accepted(rs) : \A j \in Accepted(rs) : j <= i

\* C13: in the report built by save_results, data_period.start is the date
\* of the first accepted price observation of the original sequence (the
\* one the return calculation trims away) and data_period.end is the date
\* of the last accepted price observation.
C13_PeriodOfOriginal ==
    (variant \in HasProcessData /\ pc = "done" /\ report # None)
    => /\ Val(report).data_period.start
            = Some(rows[FirstAccepted(rows)].Date.v)
       /\ Val(report).data_period.end
            = Some(rows[LastAccepted(rows)].Date.v)

\* C14: a row with a coercible date and close whose volume is absent or
\* marked null is accepted by process_data with volume = 0: it is not
\* rejected and it takes part in the return series, in every variant.
C14_VolumeDefaultsToZero ==
    ("process_data" \in calls
       /\ \A i \in 1..Len(rows) : rows[i].Volume.kind \in {"num", "absent", "null"})
    => /\ ProcessReturned
       /\ skipped = 0
       /\ Len(rows) >= 1 => Len(data) = Len(rows) - 1
       /\ \A i \in 1..Len(data) :
             /\ data[i].date = rows[i + 1].Date.v
             /\ data[i].volume = IF rows[i + 1].Volume.kind = "num"
                                 THEN rows[i + 1].Volume.v ELSE 0

\* C15: for the closes [10.00, 10.00, 11.00, 9.90] on the dates d0..d3 and
\* N >= 1, the return series is [(d1, 0%), (d2, +10%), (d3, -10%)], the mean
\* is 0, the population variance is 200/3, top_gains[0] is d2 and
\* top_losses[0] is d3, and their sigmas (percent_change - mean) / std are
\* +sqrt(3/2) and -sqrt(3/2).
C15_Scenario ==
    (variant = "REAL" /\ rows = ScenarioRows /\ top_n >= 1 /\ Ranked)
    => /\ [i \in 1..Len(data) |-> data[i].date] = <<2, 3, 4>>
       /\ Changes(data) = <<RInt(0), RInt(10), RInt(-10)>>
       /\ Val(stats).avg_daily_change_pct = RZero
       /\ Val(stats).volatility_std = Sqrt(Rat(200, 3))
       /\ top_gains[1].date = 3 /\ top_losses[1].date = 4
       /\ calculate_sigma(SortKey(top_gains[1]),
                          Val(stats).avg_daily_change_pct,
                          Val(stats).volatility_std)
            = [exc |-> "", sign |-> 1, sq |-> Rat(3, 2)]
       /\ calculate_sigma(SortKey(top_losses[1]),
                          Val(stats).avg_daily_change_pct,
                          Val(stats).volatility_std)
            = [exc |-> "", sign |-> -1, sq |-> Rat(3, 2)]
       /\ pc = "done"
            => /\ Val(report).top_gains[1].Sigma = Some(122)
               /\ Val(report).top_losses[1].Sigma = Some(-122)

C15_Witness ==
    /\ variant = "REAL" /\ rows = ScenarioRows /\ top_n >= 1 /\ pc = "done"
    /\ Val(report).top_gains[1].Date = 3

\* the records at positions i < j of the list carry the same percent change
Tied(list, i, j) == i < j /\ SortKey(list[i]) = SortKey(list[j])

\* C16 (as stated): in top_gains and in top_losses alike, any two records
\* with equal daily_change_pct appear in their original chronological order,
\* the earlier day first.
C16_Original ==
    (variant \in HasProcessData /\ Ranked /\ top_n >= 1)
    => /\ \A i, j \in 1..Len(top_gains) :
             Tied(top_gains, i, j) => top_gains[i].date < top_gains[j].date
       /\ \A i, j \in 1..Len(top_losses) :
             Tied(top_losses, i, j) => top_losses[i].date < top_losses[j].date

\* C16 (amended): in v2, v3 and REAL any two records with equal
\* daily_change_pct appear in top_gains in chronological order, the earlier
\* day first, and in top_losses, the reversed tail of the sorted list, in
\* reverse chronological order, the later day first.
C16_TieOrder ==
    (variant \in HasProcessData /\ Ranked)
    => /\ \A i, j \in 1..Len(top_gains) :
             Tied(top_gains, i, j) => top_gains[i].date < top_gains[j].date
       /\ \A i, j \in 1..Len(top_losses) :
             Tied(top_losses, i, j) => top_losses[i].date > top_losses[j].date

C16_Witness ==
    /\ variant \in HasProcessData /\ pc = "ranked" /\ top_n >= 2
    /\ \E i, j \in 1..Len(top_gains) : Tied(top_gains, i, j)
    /\ \E i, j \in 1..Len(top_losses) : Tied(top_losses, i, j)

\* position i is the first of data whose percent change is the maximum
FirstMaximum(i) ==
    /\ \A j \in 1..Len(data) : RLe(SortKey(data[j]), SortKey(data[i]))
    /\ \A j \in 1..(i - 1) : RLt(SortKey(data[j]), SortKey(data[i]))
\* position i is the first of data whose percent change is the minimum
FirstMinimum(i) ==
    /\ \A j \in 1..Len(data) : RLe(SortKey(data[i]), SortKey(data[j]))
    /\ \A j \in 1..(i - 1) : RLt(SortKey(data[i]), SortKey(data[j]))

\* C17: for every non-empty return series, max_gain_date is the date of the
\* chronologically first record whose daily_change_pct equals the maximum,
\* and max_loss_date is the date of the chronologically first record whose
\* daily_change_pct equals the minimum.
C17_FirstOccurrence ==
    (variant \in HasProcessData /\ "calculate_statistics" \in calls
       /\ Len(data) >= 1)
    => /\ stats # EmptyDict
       /\ \E i \in 1..Len(data) :
             FirstMaximum(i) /\ Val(stats).max_gain_date = data[i].date
       /\ \E i \in 1..Len(data) :
             FirstMinimum(i) /\ Val(stats).max_loss_date = data[i].date

C17_Witness ==
    /\ variant \in HasProcessData /\ pc = "analyzed" /\ Len(data) = 3
    /\ SortKey(data[1]) = SortKey(data[2])
    /\ FirstMaximum(1) /\ FirstMinimum(3)
    /\ SortKey(data[3]) # SortKey(data[1])
    /\ Val(stats).max_gain_date = data[1].date

\* the dates of the records of a ranked list (dates are unique in data)
DatesOf(list) == {list[i].date : i \in 1..Len(list)}
\* the records that are in top_gains and in top_losses
Common == DatesOf(top_gains) \cap DatesOf(top_losses)

\* C18: for every return series of length M and every N < M/2 no record is
\* in both top_gains and top_losses; when M < 2N the records common to both
\* lists are kept in both, with no deduplication: each list keeps its
\* min(N, M) records and 2 * min(N, M) - M of them are common.
C18_Overlap ==
    Ranked
    => /\ 2 * top_n < Len(data) => Common = {}
       /\ Len(data) < 2 * top_n
            => /\ Len(top_gains) = Min(top_n, Len(data))
               /\ Len(top_losses) = Min(top_n, Len(data))
               /\ Cardinality(DatesOf(top_gains)) = Len(top_gains)
               /\ Cardinality(DatesOf(top_losses)) = Len(top_losses)
               /\ Cardinality(Common) = 2 * Min(top_n, Len(data)) - Len(data)

C18_Witness ==
    /\ variant = "REAL" /\ pc = "ranked" /\ top_n = 2 /\ Len(data) = 3
    /\ Cardinality(Common) = 1

\* C19: calculate_statistics called on a return series with zero elements
\* fails with an EmptyInput condition: it returns no statistics value that a
\* caller could pass on to ranking, sigma annotation or save_results.
C19_EmptyInputFails ==
    ("calculate_statistics" \in calls /\ Len(data) = 0)
    => /\ pc = "crashed" /\ err = "EmptyInput"
       /\ calls \cap {"rank_movements", "save_results"} = {}
       /\ files = {} /\ report = None

\* REAL holds statistics whose volatility_std is 0
ZeroStd ==
    variant = "REAL" /\ stats # EmptyDict
      /\ IsZeroStd(Val(stats).volatility_std)

\* C20: in REAL, whenever volatility_std is 0 the run aborts before any
\* report is emitted: neither main nor a direct call of save_results on the
\* ranked lists writes silver_price_analysis.json or any other output file.
C20_NoReportOnZeroStd ==
    /\ [](ZeroStd => (files = {} /\ report = None /\ pc # "done"))
    /\ [][(ZeroStd /\ pc \in {"ranked", "returned_ranks"})
            => (pc' = "crashed" /\ err' = "ZeroDivisionError"
                  /\ files' = {})]_vars

C20_Witness ==
    /\ ZeroStd /\ pc = "crashed" /\ err = "ZeroDivisionError"
    /\ "save_results" \in calls /\ Len(data) >= 2

\* the rows whose close parses to inf, -inf or nan
NonFiniteAt(rs) == {k \in 1..Len(rs) : rs[k].Close.kind = "nonfinite"}

\* C21: a row whose close parses to a non-finite number (nan, +inf or -inf)
\* is rejected by process_data like any other malformed row: it never
\* becomes an observation and never contributes a daily_change_pct to the
\* return series.
C21_NonFiniteRejected ==
    "process_data" \in calls
    => /\ ProcessReturned
       /\ skipped = Cardinality(NonFiniteAt(rows))
       /\ \A i \in 1..Len(data) :
             /\ IsFinite(data[i].close)
             /\ IsFinite(Val(data[i].daily_change_pct))
             /\ \A k \in NonFiniteAt(rows) : data[i].date # rows[k].Date.v

\* position i is the last of data whose percent change is the minimum
LastMinimum(i) ==
    /\ \A j \in 1..Len(data) : RLe(SortKey(data[i]), SortKey(data[j]))
    /\ \A j \in (i + 1)..Len(data) : RLt(SortKey(data[i]), SortKey(data[j]))
\* main has the statistics and the ranking of a non-empty return series
RankedWithStatistics ==
    /\ variant \in HasProcessData /\ Ranked /\ top_n >= 1
    /\ Len(data) >= 1 /\ stats # EmptyDict

\* C22 (as stated): for every non-empty return series and every N >= 1,
\* top_gains[0].date equals max_gain_date and top_losses[0].date equals
\* max_loss_date, also when several days tie at the maximum or the minimum.
C22_Original ==
    RankedWithStatistics
    => /\ top_gains[1].date = Val(stats).max_gain_date
       /\ top_losses[1].date = Val(stats).max_loss_date

\* C22 (amended): for every non-empty return series and every N >= 1,
\* top_gains[0].date equals max_gain_date, also when several days tie at the
\* maximum; top_losses[0] is the chronologically last day at the minimum,
\* so top_losses[0].date equals max_loss_date, the first day at the
\* minimum, exactly when no two days tie at the minimum.
C22_ExtremeDays ==
    RankedWithStatistics
    => /\ top_gains[1].date = Val(stats).max_gain_date
       /\ \E i \in 1..Len(data) :
             /\ LastMinimum(i) /\ top_losses[1].date = data[i].date
             /\ (top_losses[1].date = Val(stats).max_loss_date)
                  <=> FirstMinimum(i)

C22_Witness ==
    /\ RankedWithStatistics /\ pc = "ranked" /\ Len(data) = 3
    /\ FirstMinimum(1) /\ LastMinimum(2) /\ FirstMaximum(3)
    /\ top_gains[1].date = data[3].date
    /\ top_losses[1].date = data[2].date
    /\ Val(stats).max_loss_date = data[1].date

\* C23: for every return series of length M and every N >= M with N >= 1,
\* top_gains contains every record of the series exactly once and
\* top_losses is exactly top_gains in reverse order.
C23_WholeSeries ==
    (Ranked /\ top_n >= Len(data) /\ top_n >= 1)
    => /\ Len(top_gains) = Len(data)
       /\ \A i \in 1..Len(data) :
             Cardinality({j \in 1..Len(top_gains) : top_gains[j] = data[i]}) = 1
       /\ Len(top_losses) = Len(top_gains)
       /\ \A i \in 1..Len(top_gains) :
             top_losses[i] = top_gains[Len(top_gains) + 1 - i]

C23_Witness ==
    /\ pc = "ranked" /\ variant = "v3" /\ top_n = 3 /\ Len(data) = 3
    /\ top_gains[1].date = 3 /\ top_losses[1].date = 2
    /\ top_losses[3] = top_gains[1]

====
